---- MODULE Spec2Model ----
(***************************************************************************)
(* AKAP federation core: src/src/akap/federation_protocol.py.              *)
(* One AKAPFederationProtocol instance (the Seeker) with its Peer Registry *)
(* (self.peers), Fragment Store (self.shared_fragments) and lifecycle flag *)
(* (self.is_running), driven by start_federation, discover_peers,          *)
(* share_insights and stop_federation.  The network, the theme provider,   *)
(* the embedding model and the synthesis service are the environment.      *)
(* Floats are scaled by 100 (trust_score 0.5 is 50).  Strings that the     *)
(* code inspects (concepts, queries) are sequences of one-character        *)
(* strings.                                                                *)
(***************************************************************************)
EXTENDS Integers, Sequences, FiniteSets, TLC

\* ---------------------------------------------------------------- bounds
MaxClock == 1
MaxWindow == 2
MaxResults == 2

\* ------------------------------------------------------ program constants
InitialTrust == 50
DefaultPort == 8447
ListenTimeout == 2
MaxPromptConcepts == 10
MaxSampleConcepts == 20
RelevanceThreshold == 30

\* ------------------------------------------------------------- universes
SelfId == "akap-self"
PeerIds == {"akap-p1", "akap-p2"}
NodeIds == PeerIds \cup {SelfId}

None == "None"

cAI == <<"A", "I">>
cDesign == <<"d", "e", "s">>

Queries == { <<"a", "i">>, <<"D", "E", " ", "x">>, <<" ">> }

\* --------------------------------------------------------------- slices
\* the subsets of S with k elements
RECURSIVE KSubsets(_, _)
KSubsets(S, k) ==
    IF k = 0 THEN {{}}
    ELSE UNION {{T \cup {x} : T \in KSubsets(S \ {x}, k - 1)} : x \in S}

\* a slice that takes the whole list
SampleWhole(S, n) == {S}

\* what list(S)[:n] can hold: every element when S has no more than n, else
\* any n of them (a set is listed in no fixed order)
Sample(S, n) ==
    IF Cardinality(S) <= n THEN {S}
    ELSE {S \ D : D \in KSubsets(S, Cardinality(S) - n)}

\* ------------------------------------------------------ string primitives
\* str.lower() on the characters used here
LowerChar(ch) ==
    CASE ch = "A" -> "a"
      [] ch = "I" -> "i"
      [] ch = "D" -> "d"
      [] ch = "E" -> "e"
      [] OTHER -> ch

Lower(s) == [i \in 1..Len(s) |-> LowerChar(s[i])]

\* str.split(): words separated by runs of whitespace, no empty words
RECURSIVE SplitFrom(_, _, _)
SplitFrom(s, i, cur) ==
    IF i > Len(s)
    THEN (IF cur = <<>> THEN {} ELSE {cur})
    ELSE IF s[i] = " "
         THEN (IF cur = <<>> THEN {} ELSE {cur}) \cup SplitFrom(s, i + 1, <<>>)
         ELSE SplitFrom(s, i + 1, Append(cur, s[i]))

\* set(query.lower().split())
QueryWords(query) == SplitFrom(Lower(query), 1, <<>>)

\* `word in text` for Python strings
IsSubstring(word, text) ==
    \E i \in 0..(Len(text) - Len(word)) : SubSeq(text, i + 1, i + Len(word)) = word

\* ------------------------------------------------------------- documents
\* knowledge_node.documents: title -> KnowledgeDocument(content, concepts)
\* content is the text of the note; concepts are what _extract_concepts made
\* of it ([] when the extraction failed or found nothing)
Titles == {"t1", "t2", "t3"}
Raw1 == <<"A", "I", " ", "d", "e", "s">>
Raw2 == <<"A", "I", " ", "x">>
Raw3 == <<"x", "y">>
Doc(content, concepts) == [content |-> content, concepts |-> concepts]
DocSets ==
    { [t \in {} |-> Doc(<<>>, {})],
      [t \in {"t1", "t2"} |-> IF t = "t1" THEN Doc(Raw1, {cAI, cDesign})
                                           ELSE Doc(Raw2, {cAI})] }

\* the vaults the fragment builder is run on: also one with a note that has
\* no concepts
BuildDocSets ==
    DocSets \cup
    { [t \in {"t1", "t3"} |-> IF t = "t1" THEN Doc(Raw1, {cAI, cDesign})
                                           ELSE Doc(Raw3, {})] }

\* a vault whose notes have more concepts than one discovery message takes;
\* the first two notes share a concept
Digits == {"0", "1", "2", "3", "4", "5", "6"}
SampleDocSets ==
    DocSets \cup
    { [t \in Titles |->
         CASE t = "t1" -> Doc(Raw1, {cAI} \cup {<<"k", x>> : x \in Digits})
           [] t = "t2" -> Doc(Raw2, {cAI} \cup {<<"m", x>> : x \in Digits})
           [] t = "t3" -> Doc(Raw3, {<<"n", x>> : x \in Digits})] }

\* ---------------------------------------------------------- wire messages
\* A datagram as recvfrom returns it.  form is what json.loads makes of the
\* bytes (garbage: not JSON; array: JSON that is not an object); keys are the
\* keys present in a JSON object.
Obj(type, node_id, port, concepts, keys) ==
    [form |-> "object", type |-> type, node_id |-> node_id, port |-> port,
     concepts |-> concepts, keys |-> keys]

Garbage == [Obj("", "", 0, {}, {}) EXCEPT !.form = "garbage"]
JsonArray == [Obj("", "", 0, {}, {}) EXCEPT !.form = "array"]
NoData == [Obj("", "", 0, {}, {}) EXCEPT !.form = "nothing"]

AllKeys == {"type", "node_id", "port", "concepts"}

Datagrams ==
    {Garbage, JsonArray}
    \cup {Obj("akap_discovery", "akap-p1", DefaultPort, {cAI}, AllKeys)}
    \cup {Obj("akap_discovery_response", n, DefaultPort, {cAI, cDesign}, AllKeys) :
              n \in NodeIds}
    \cup {Obj("akap_discovery_response", "akap-p1", DefaultPort, {}, AllKeys \ {"concepts"}),
          Obj("akap_discovery_response", "", DefaultPort, {cAI}, AllKeys \ {"node_id"}),
          Obj("akap_discovery_response", "akap-p2", 0, {cAI}, AllKeys \ {"port"})}

\* the messages the protocol calls well-formed discovery responses
WellFormed(d) ==
    /\ d.form = "object"
    /\ d.type = "akap_discovery_response"
    /\ {"type", "node_id", "port"} \subseteq d.keys

VARIABLES
    documents,          \* knowledge_node.documents
    pattern_extractor,  \* knowledge_node.pattern_extractor is set
    semantic_processor, \* knowledge_node.semantic_processor is set
    is_running,         \* self.is_running
    peers,              \* self.peers: node_id -> FederationNode
    shared_fragments,   \* self.shared_fragments: fragment_id -> KnowledgeFragment
    clock,              \* datetime.now()
    op,                 \* the public call in flight: none, start, create, discover
    pc,                 \* its position; done: the call has just returned
    entry_running,      \* is_running when the call in flight was entered
    todo,               \* documents the fragment loop has still to visit
    fragments,          \* local list `fragments` of create_knowledge_fragments
    built,              \* create_knowledge_fragments has returned in this call
    sock,               \* local `sock` of _discover_local_peers
    nrecv,              \* datagrams recvfrom has returned in this listen window
    data,               \* what the last recvfrom returned
    found,              \* local list `peers` of _discover_local_peers
    result,             \* outcome of the call that has just returned
    stopped_in_flight,  \* stop_federation has returned during the call in flight
    elapsed,            \* seconds since the discovery broadcast was sent
    waited              \* seconds the pending recvfrom has been blocked

vars == <<documents, pattern_extractor, semantic_processor, is_running, peers,
          shared_fragments, clock, op, pc, entry_running, todo, fragments,
          built, sock, nrecv, data, found, result, stopped_in_flight, elapsed,
          waited>>

store == <<documents, pattern_extractor, semantic_processor>>
disc == <<sock, nrecv, data, found>>
timer == <<elapsed, waited>>

\* outcome of a finished call: what it returned (value, list) or that it
\* raised; peer: the share_insights argument; synth: the synthesis service was
\* called; fault: the step that failed in the call, if any
Outcome(o, raised, value, list, peer, synth, er, b, f) ==
    [op |-> o, raised |-> raised, value |-> value, list |-> list, peer |-> peer,
     synth |-> synth, entry_running |-> er, built |-> b, fault |-> f]

NoResult == Outcome("none", FALSE, None, <<>>, None, FALSE, FALSE, FALSE, "none")

NoPeer == [trust_score |-> 0, last_seen |-> 0, port |-> 0, shared_concepts |-> {}]
NoFragment == [fragment_id |-> <<>>, node_id |-> "", content_hash |-> <<>>,
               concepts |-> {}, themes |-> {}, creation_time |-> 0,
               similarity_embeddings |-> <<>>]

InitFrom(vaults) ==
    /\ documents \in vaults
    /\ pattern_extractor \in BOOLEAN
    /\ semantic_processor \in BOOLEAN
    /\ is_running = FALSE
    /\ peers = [n \in {} |-> NoPeer]
    /\ shared_fragments = [f \in {} |-> NoFragment]
    /\ clock = 0
    /\ op = "none"
    /\ pc = "idle"
    /\ entry_running = FALSE
    /\ todo = {}
    /\ fragments = <<>>
    /\ built = FALSE
    /\ sock = "unbound"
    /\ nrecv = 0
    /\ data = NoData
    /\ found = <<>>
    /\ result = NoResult
    /\ stopped_in_flight = FALSE
    /\ elapsed = 0
    /\ waited = 0

Init == InitFrom(DocSets)

\* ------------------------------------------------------------- the clock
\* datetime.now() moves on between any two steps
Tick ==
    /\ pc # "done"
    /\ clock < MaxClock
    /\ clock' = clock + 1
    /\ UNCHANGED <<stopped_in_flight, timer, store, is_running, peers, shared_fragments, op, pc,
                   entry_running, todo, fragments, built, disc, result>>

\* ---------------------------------------------------- ending a public call
\* back to the caller with outcome r
Return(r) ==
    /\ result' = r
    /\ op' = "none"
    /\ pc' = "done"
    /\ todo' = {}
    /\ fragments' = <<>>
    /\ built' = FALSE
    /\ entry_running' = FALSE
    /\ found' = <<>>

\* the caller has taken the outcome; the locals of the call are gone
Resume ==
    /\ pc = "done"
    /\ pc' = "idle"
    /\ result' = NoResult
    /\ sock' = "unbound"
    /\ nrecv' = 0
    /\ data' = NoData
    /\ stopped_in_flight' = FALSE
    /\ elapsed' = 0
    /\ waited' = 0
    /\ UNCHANGED <<store, is_running, peers, shared_fragments, clock, op,
                   entry_running, todo, fragments, built, found>>

\* start_federation's `except Exception`: log, return False
StartFails(f) ==
    Return(Outcome("start", FALSE, "False", <<>>, None, FALSE,
                   entry_running, built, f))

\* ------------------------------------------------------------ key material
\* the characters of self.node_id
SelfIdChars == <<"a", "k", "a", "p", "-", "s", "e", "l", "f">>

\* _generate_encryption_key(): urlsafe_b64encode of PBKDF2-HMAC-SHA256 over
\* "akap-" + node_id with the salt "akap_federation_salt", 100000 rounds
EncryptionKey ==
    <<"A", "p", "F", "t", "R", "H", "K", "e", "c", "g", "H", "1", "7", "w", "6", "V",
    "w", "J", "a", "W", "r", "o", "1", "7", "r", "a", "W", "g", "0", "q", "y", "J",
    "J", "g", "v", "Y", "h", "q", "i", "l", "T", "w", "w", "=">>

\* ------------------------------------------------- create_knowledge_fragments

\* hashlib.sha256(doc.content.encode()).hexdigest()
Sha256(content) ==
    CASE content = Raw1 -> <<"3", "c", "b", "7", "9", "a", "0", "f", "6", "2", "f", "4", "9", "d", "a", "4",
                          "6", "0", "0", "2", "d", "8", "9", "e", "9", "e", "e", "3", "6", "6", "4", "e",
                          "a", "f", "f", "6", "1", "6", "6", "0", "2", "9", "9", "d", "a", "a", "f", "1",
                          "4", "c", "0", "7", "9", "c", "8", "7", "1", "0", "5", "3", "3", "6", "c", "9">>
      [] content = Raw2 -> <<"6", "d", "3", "2", "a", "f", "c", "3", "4", "8", "3", "c", "3", "d", "3", "b",
                          "9", "7", "8", "9", "5", "2", "0", "b", "8", "b", "3", "6", "9", "b", "f", "0",
                          "f", "3", "3", "8", "8", "5", "5", "7", "d", "f", "9", "c", "7", "e", "1", "1",
                          "1", "f", "0", "f", "2", "6", "9", "1", "b", "b", "f", "b", "e", "1", "b", "d">>
      [] content = Raw3 -> <<"7", "6", "9", "a", "4", "e", "6", "d", "0", "0", "0", "3", "1", "8", "9", "c",
                          "7", "e", "9", "6", "c", "5", "d", "9", "b", "7", "e", "8", "1", "0", "a", "0",
                          "d", "1", "1", "c", "3", "a", "1", "2", "8", "3", "2", "5", "2", "7", "e", "c",
                          "9", "4", "b", "0", "f", "8", "6", "d", "2", "7", "7", "f", "5", "1", "c", "a">>

\* hashlib.md5(doc_title.encode()).hexdigest()[:8]
TitleHash(title) ==
    CASE title = "t1" -> <<"8", "3", "f", "1", "5", "3", "5", "f">>
      [] title = "t2" -> <<"0", "f", "8", "2", "6", "a", "8", "9">>
      [] title = "t3" -> <<"0", "b", "8", "8", "5", "4", "a", "d">>

\* f"{self.node_id}-{...}"
FragmentId(title) == SelfIdChars \o <<"-">> \o TitleHash(title)

\* extract_document_themes(): concepts met in two or more documents, per title
ThemesOf(title) ==
    {Lower(c) : c \in {k \in documents[title].concepts :
        Cardinality({t \in DOMAIN documents : k \in documents[t].concepts}) >= 2}}

\* embedding_model.encode([content[:1000]])[0][:50].tolist()
Embedding(content) ==
    CASE content = Raw1 -> <<3, 4>>
      [] content = Raw2 -> <<4, 3>>
      [] OTHER -> <<1, 0>>

\* embeddings = None (an encoded vector is never empty)
NoEmbedding == <<>>

\* a fragment that keeps the text where the hash belongs
FragmentKeepsText(title, themes, emb) ==
    [fragment_id |-> FragmentId(title),
     node_id |-> SelfId,
     content_hash |-> documents[title].content,
     concepts |-> documents[title].concepts,
     themes |-> themes,
     creation_time |-> clock,
     similarity_embeddings |-> emb]

\* a fragment stamped with the node_id of a peer
FragmentOfPeer(title, themes, emb) ==
    [fragment_id |-> FragmentId(title),
     node_id |-> "akap-p1",
     content_hash |-> Sha256(documents[title].content),
     concepts |-> documents[title].concepts,
     themes |-> themes,
     creation_time |-> clock,
     similarity_embeddings |-> emb]

\* KnowledgeFragment(...) of lines 145-160
Fragment(title, themes, emb) ==
    [fragment_id |-> FragmentId(title),
     node_id |-> SelfId,
     content_hash |-> Sha256(documents[title].content),
     concepts |-> documents[title].concepts,
     themes |-> themes,
     creation_time |-> clock,
     similarity_embeddings |-> emb]

Upsert(map, key, val) ==
    [k \in DOMAIN map \cup {key} |-> IF k = key THEN val ELSE map[k]]

\* a builder that leaves out the fragments that have no concepts
AppendFragmentWithConcepts(list, fragment) ==
    IF fragment.concepts = {} THEN list ELSE Append(list, fragment)

\* fragments.append(fragment)
AppendFragment(list, fragment) == Append(list, fragment)

\* start_federation(): enter the try block and call create_knowledge_fragments
StartFederation ==
    /\ pc = "idle"
    /\ op' = "start"
    /\ pc' = "create"
    /\ entry_running' = is_running
    /\ built' = FALSE
    /\ todo' = DOMAIN documents
    /\ fragments' = <<>>
    /\ UNCHANGED <<stopped_in_flight, timer, store, is_running, peers, shared_fragments, clock, disc, result>>

\* a rebuild that starts from an empty store
CreateKnowledgeFragmentsFresh ==
    /\ pc = "idle"
    /\ op' = "create"
    /\ pc' = "create"
    /\ entry_running' = is_running
    /\ built' = FALSE
    /\ todo' = DOMAIN documents
    /\ fragments' = <<>>
    /\ shared_fragments' = [f \in {} |-> NoFragment]
    /\ UNCHANGED <<stopped_in_flight, timer, store, is_running, peers, clock, disc, result>>

\* create_knowledge_fragments(), called directly
CreateKnowledgeFragments ==
    /\ pc = "idle"
    /\ op' = "create"
    /\ pc' = "create"
    /\ entry_running' = is_running
    /\ built' = FALSE
    /\ todo' = DOMAIN documents
    /\ fragments' = <<>>
    /\ UNCHANGED <<stopped_in_flight, timer, store, is_running, peers, shared_fragments, clock, disc, result>>

\* an exception leaves create_knowledge_fragments.  start_federation catches
\* it and returns False; a direct caller gets the exception.
CreateRaises(f) ==
    IF op = "start"
    THEN StartFails(f)
    ELSE Return(Outcome("create", TRUE, None, <<>>, None, FALSE,
                        entry_running, built, f))

\* one pass of the loop over knowledge_node.documents
FragmentStep ==
    /\ pc = "create"
    /\ todo # {}
    /\ \E title \in todo :
       \E themes_ok \in BOOLEAN, emb_ok \in BOOLEAN :
          IF pattern_extractor /\ ~themes_ok
          THEN \* extract_document_themes raises: out of create_knowledge_fragments
               /\ CreateRaises("themes")
               /\ UNCHANGED <<stopped_in_flight, timer, store, is_running, peers, shared_fragments, clock,
                              sock, nrecv, data>>
          ELSE LET fragment ==
                       Fragment(title,
                                IF pattern_extractor THEN ThemesOf(title) ELSE {},
                                IF semantic_processor /\ emb_ok
                                THEN Embedding(documents[title].content)
                                ELSE NoEmbedding)
               IN  /\ fragments' = AppendFragment(fragments, fragment)
                   /\ shared_fragments' =
                         Upsert(shared_fragments, fragment.fragment_id, fragment)
                   /\ todo' = todo \ {title}
                   /\ UNCHANGED <<stopped_in_flight, timer, store, is_running, peers, clock, op, pc,
                                  entry_running, built, disc, result>>

\* create_knowledge_fragments returns `fragments` (no documents, or the loop
\* is over); start_federation goes on to `await self.discover_peers()`
CreateReturns ==
    /\ pc = "create"
    /\ todo = {}
    /\ IF op = "start"
       THEN /\ built' = TRUE
            /\ pc' = "socket"
            /\ fragments' = <<>>
            /\ UNCHANGED <<stopped_in_flight, timer, store, is_running, peers, shared_fragments, clock, op,
                           entry_running, todo, disc, result>>
       ELSE /\ Return(Outcome("create", FALSE, "list", fragments, None, FALSE,
                              entry_running, TRUE, "none"))
            /\ UNCHANGED <<stopped_in_flight, timer, store, is_running, peers, shared_fragments, clock,
                           sock, nrecv, data>>

\* ---------------------------------------------------- find_semantic_matches
\* math.sqrt on the sums of squares met here (the vectors are chosen with
\* whole magnitudes)
Isqrt(n) == CHOOSE r \in 0..n : r * r = n

RECURSIVE Dot(_, _)
Dot(vec1, vec2) ==
    IF vec1 = <<>> THEN 0
    ELSE Head(vec1) * Head(vec2) + Dot(Tail(vec1), Tail(vec2))

Magnitude(vec) == Isqrt(Dot(vec, vec))

\* _cosine_similarity, scaled by 100
CosineSimilarity(vec1, vec2) ==
    IF Len(vec1) # Len(vec2) THEN 0
    ELSE IF Magnitude(vec1) = 0 \/ Magnitude(vec2) = 0 THEN 0
         ELSE (100 * Dot(vec1, vec2)) \div (Magnitude(vec1) * Magnitude(vec2))

\* the test of line 190 without its node_id comparison
MatchableWithSelf(candidates, query_embedding) ==
    {f \in DOMAIN candidates :
        /\ candidates[f].similarity_embeddings # NoEmbedding
        /\ CosineSimilarity(query_embedding, candidates[f].similarity_embeddings)
              > RelevanceThreshold}

\* the fragments that pass the tests of lines 190 and 193
Matchable(candidates, query_embedding) ==
    {f \in DOMAIN candidates :
        /\ candidates[f].similarity_embeddings # NoEmbedding
        /\ candidates[f].node_id # SelfId
        /\ CosineSimilarity(query_embedding, candidates[f].similarity_embeddings)
              > RelevanceThreshold}

\* the orders in which the fragments of S can stand in a list
Arrangements(S) ==
    {l \in [1..Cardinality(S) -> S] :
        \A i \in DOMAIN l, j \in DOMAIN l : l[i] = l[j] => i = j}

\* the lists find_semantic_matches can return: [] without a semantic
\* processor or when encode fails; else the (node_id, similarity) pairs of
\* the matchable fragments, sorted by similarity, the highest first (equal
\* ones in the order the store lists them), cut to max_results
FindSemanticMatches(candidates, query_embedding, encode_ok, max_results) ==
    IF ~semantic_processor \/ ~encode_ok THEN {<<>>}
    ELSE LET score(f) == CosineSimilarity(query_embedding,
                                          candidates[f].similarity_embeddings)
             sorted == {l \in Arrangements(Matchable(candidates, query_embedding)) :
                           \A i \in DOMAIN l, j \in DOMAIN l :
                               i < j => score(l[i]) >= score(l[j])}
             cut(l) == SubSeq(l, 1, IF Len(l) < max_results THEN Len(l)
                                    ELSE max_results)
         IN  {[i \in DOMAIN cut(l) |-> <<candidates[cut(l)[i]].node_id, score(cut(l)[i])>>] :
                  l \in sorted}

\* what encode([" ".join(query_concepts)])[0][:50] can be
QueryEmbeddings == {<<3, 4>>, <<5, 0>>, <<0, 0>>}

\* find_semantic_matches(query_concepts, max_results)
FindSemanticMatchesCall ==
    /\ pc = "idle"
    /\ \E q \in QueryEmbeddings, encode_ok \in BOOLEAN, m \in 0..MaxResults :
       \E matches \in FindSemanticMatches(shared_fragments, q, encode_ok, m) :
          Return(Outcome("match", FALSE, "list", matches, None, FALSE,
                         is_running, FALSE, IF encode_ok THEN "none" ELSE "encode"))
    /\ UNCHANGED <<stopped_in_flight, timer, store, is_running, peers,
                   shared_fragments, clock, sock, nrecv, data>>

\* ------------------------------------------------------------ discover_peers
DiscoveryMethods == {"local_broadcast", "dht", "bootstrap"}

\* a discovery that takes the node out of service when a step of it failed
DiscoverReturnsStopsOnFault(lst, f) ==
    IF op = "start"
    THEN /\ is_running' = (f = "none")
         /\ Return(Outcome("start", FALSE, "True", lst, None, FALSE,
                           entry_running, built, f))
    ELSE /\ is_running' = (is_running /\ f = "none")
         /\ Return(Outcome("discover", FALSE, "list", lst, None, FALSE,
                           entry_running, built, f))

\* discover_peers returns `lst` to its caller.  Called from start_federation,
\* the caller then sets is_running and returns True.
DiscoverReturns(lst, f) ==
    IF op = "start"
    THEN /\ is_running' = TRUE
         /\ Return(Outcome("start", FALSE, "True", lst, None, FALSE,
                           entry_running, built, f))
    ELSE /\ is_running' = is_running
         /\ Return(Outcome("discover", FALSE, "list", lst, None, FALSE,
                           entry_running, built, f))

\* an exception leaves discover_peers.  start_federation catches it and
\* returns False; a direct caller gets the exception.
DiscoverRaises(f) ==
    IF op = "start"
    THEN StartFails(f)
    ELSE Return(Outcome("discover", TRUE, None, <<>>, None, FALSE,
                        entry_running, built, f))

\* a discover_peers whose unimplemented methods start from an empty registry
DiscoverPeersOtherMethodsReset(method) ==
    /\ pc = "idle"
    /\ IF method = "local_broadcast"
       THEN /\ op' = "discover"
            /\ pc' = "socket"
            /\ entry_running' = is_running
            /\ UNCHANGED <<stopped_in_flight, timer, store, is_running, peers, shared_fragments, clock,
                           todo, fragments, built, disc, result>>
       ELSE /\ peers' = [n \in {} |-> NoPeer]
            /\ Return(Outcome("discover", FALSE, "list", <<>>, None, FALSE,
                              is_running, FALSE, "none"))
            /\ UNCHANGED <<stopped_in_flight, timer, store, is_running, shared_fragments, clock,
                           sock, nrecv, data>>

\* discover_peers(discovery_method), called directly
DiscoverPeers(method) ==
    /\ pc = "idle"
    /\ IF method = "local_broadcast"
       THEN /\ op' = "discover"
            /\ pc' = "socket"
            /\ entry_running' = is_running
            /\ UNCHANGED <<stopped_in_flight, timer, store, is_running, peers, shared_fragments, clock,
                           todo, fragments, built, disc, result>>
       ELSE \* dht, bootstrap: `pass`
            /\ Return(Outcome("discover", FALSE, "list", <<>>, None, FALSE,
                              is_running, FALSE, "none"))
            /\ UNCHANGED <<stopped_in_flight, timer, store, is_running, peers, shared_fragments, clock,
                           sock, nrecv, data>>

\* discovery_message of lines 239-244 (the [:20] sample keeps every concept of
\* the few modelled here)
DiscoveryMessage ==
    [type |-> "akap_discovery",
     node_id |-> SelfId,
     port |-> DefaultPort,
     concepts |-> UNION {shared_fragments[f].concepts : f \in DOMAIN shared_fragments}]

\* set().union(*[f.concepts for f in self.shared_fragments.values()])
StoreConcepts ==
    UNION {shared_fragments[f].concepts : f \in DOMAIN shared_fragments}

\* list(S): the elements of S, each once
RECURSIVE ListOf(_)
ListOf(S) ==
    IF S = {} THEN <<>>
    ELSE LET x == CHOOSE x \in S : TRUE IN <<x>> \o ListOf(S \ {x})

\* the lists that "concepts" of the discovery message can be: list(...)[:20]
DiscoveryConceptLists ==
    {ListOf(S) : S \in Sample(StoreConcepts, MaxSampleConcepts)}

\* sock = socket.socket(AF_INET, SOCK_DGRAM).  When the call fails, the
\* handler logs and the finally block runs sock.close() on the unbound name:
\* UnboundLocalError leaves _discover_local_peers.
SocketCreate ==
    /\ pc = "socket"
    /\ \E ok \in BOOLEAN :
          IF ok
          THEN /\ sock' = "open"
               /\ pc' = "setsockopt"
               /\ UNCHANGED <<stopped_in_flight, timer, store, is_running, peers, shared_fragments, clock,
                              op, entry_running, todo, fragments, built, nrecv, data,
                              found, result>>
          ELSE /\ DiscoverRaises("socket")
               /\ UNCHANGED <<stopped_in_flight, timer, store, is_running, peers, shared_fragments, clock,
                              sock, nrecv, data>>

\* sock.setsockopt(...); sock.settimeout(2.0)
SetSockOpt ==
    /\ pc = "setsockopt"
    /\ \E ok \in BOOLEAN :
          IF ok
          THEN /\ pc' = "send"
               /\ UNCHANGED <<stopped_in_flight, timer, store, is_running, peers, shared_fragments, clock,
                              op, entry_running, todo, fragments, built, disc, result>>
          ELSE /\ sock' = "closed"
               /\ DiscoverReturns(found, "setsockopt")
               /\ UNCHANGED <<stopped_in_flight, timer, store, peers, shared_fragments, clock, nrecv, data>>

\* sock.sendto(message_bytes, ('<broadcast>', port))
SendTo ==
    /\ pc = "send"
    /\ \E ok \in BOOLEAN :
          IF ok
          THEN /\ pc' = "listen"
               /\ UNCHANGED <<stopped_in_flight, timer, store, is_running, peers, shared_fragments, clock,
                              op, entry_running, todo, fragments, built, disc, result>>
          ELSE /\ sock' = "closed"
               /\ DiscoverReturns(found, "send")
               /\ UNCHANGED <<stopped_in_flight, timer, store, peers, shared_fragments, clock, nrecv, data>>

\* response.get(key)
Get(d, key) ==
    IF key \notin d.keys THEN None
    ELSE CASE key = "type" -> d.type
           [] key = "node_id" -> d.node_id
           [] OTHER -> None

\* the test of lines 261-262 without its node_id comparison
HandlingAcceptsSelf(d) ==
    IF d.form # "object" THEN "raise"
    ELSE IF Get(d, "type") = "akap_discovery_response"
         THEN (IF {"node_id", "port"} \subseteq d.keys THEN "register" ELSE "raise")
         ELSE "skip"

\* what the loop body does with one datagram:
\*   "raise"    json.loads, .get or a subscript raises
\*   "register" the response passes the test of lines 261-262
\*   "skip"     the test fails
Handling(d) ==
    IF d.form # "object" THEN "raise"
    ELSE IF Get(d, "type") = "akap_discovery_response" /\ Get(d, "node_id") # SelfId
         THEN (IF {"node_id", "port"} \subseteq d.keys THEN "register" ELSE "raise")
         ELSE "skip"

\* the initial trust written as a percentage
NewPeerPercent(d, now) ==
    [trust_score |-> 100 * InitialTrust,
     last_seen |-> now,
     port |-> d.port,
     shared_concepts |-> IF "concepts" \in d.keys THEN d.concepts ELSE {}]

\* FederationNode(...) of lines 264-273
NewPeer(d, now) ==
    [trust_score |-> InitialTrust,
     last_seen |-> now,
     port |-> d.port,
     shared_concepts |-> IF "concepts" \in d.keys THEN d.concepts ELSE {}]

\* self.peers.setdefault(peer.node_id, peer): a known peer keeps its record
RegisterPeerKeepOld(registry, d, now) ==
    IF d.node_id \in DOMAIN registry THEN registry
    ELSE Upsert(registry, d.node_id, NewPeer(d, now))

\* self.peers[peer.node_id] = peer
RegisterPeer(registry, d, now) == Upsert(registry, d.node_id, NewPeer(d, now))

\* the registry after the loop of lines 257-276 has taken the responses of
\* `window` in their order of arrival
RECURSIVE RegisterAll(_, _, _)
RegisterAll(registry, window, now) ==
    IF window = <<>> THEN registry
    ELSE RegisterAll(RegisterPeer(registry, Head(window), now), Tail(window), now)

\* the loop body of lines 258-276 on datagram d that recvfrom has returned
Deliver(d) ==
    /\ data' = d
    /\ nrecv' = nrecv + 1
    /\ CASE Handling(d) = "register" ->
            /\ peers' = RegisterPeer(peers, d, clock)
            /\ found' = Append(found, d.node_id)
            /\ UNCHANGED <<stopped_in_flight, store, is_running, shared_fragments,
                           clock, op, pc, entry_running, todo, fragments, built,
                           sock, result>>
         [] Handling(d) = "skip" ->
            /\ UNCHANGED <<stopped_in_flight, store, is_running, peers,
                           shared_fragments, clock, op, pc, entry_running, todo,
                           fragments, built, sock, found, result>>
         [] OTHER ->
            \* not socket.timeout: the outer handler logs, finally closes
            /\ sock' = "closed"
            /\ DiscoverReturns(found, "malformed")
            /\ UNCHANGED <<stopped_in_flight, store, peers, shared_fragments, clock>>

\* data, addr = sock.recvfrom(1024) returns a datagram the network delivers
\* within the timeout; the loop body runs on it
RecvFrom ==
    /\ pc = "listen"
    /\ nrecv < MaxWindow
    /\ \E d \in Datagrams : Deliver(d)
    /\ UNCHANGED timer

\* Two nodes on one network, this node and akap-p1, both running this code.
\* All akap-p1 ever sends is the discovery_message of lines 239-244 under its
\* own node_id; the node has no socket bound to the port and no code that
\* sends an akap_discovery_response.
PairTraffic == {Obj("akap_discovery", "akap-p1", DefaultPort, {cAI}, AllKeys)}

\* recvfrom returns a datagram of the two-node network
RecvFromPair ==
    /\ pc = "listen"
    /\ nrecv < MaxWindow
    /\ \E d \in PairTraffic : Deliver(d)
    /\ UNCHANGED timer

\* a peer that knows more concepts than one prompt takes, all of them about AI
ManyConcepts == {<<"A", "I", x>> : x \in {"0", "1", "2", "3", "4", "5", "6", "7", "8", "9", "x"}}

\* the answers of the peers the responder policy is tried on
ResponderTraffic ==
    {Obj("akap_discovery_response", "akap-p1", DefaultPort, ManyConcepts, AllKeys),
     Obj("akap_discovery_response", "akap-p2", DefaultPort, {cAI, cDesign}, AllKeys),
     Obj("akap_discovery_response", "akap-p2", DefaultPort, {}, AllKeys \ {"concepts"})}

\* recvfrom returns one of these answers
RecvFromResponder ==
    /\ pc = "listen"
    /\ nrecv < MaxWindow
    /\ \E d \in ResponderTraffic : Deliver(d)
    /\ UNCHANGED timer

\* recvfrom raises socket.timeout: `pass`, the normal end of listening
RecvTimeout ==
    /\ pc = "listen"
    /\ sock' = "closed"
    /\ DiscoverReturns(found, "none")
    /\ UNCHANGED <<stopped_in_flight, timer, store, peers, shared_fragments, clock, nrecv, data>>

\* a second goes by while recvfrom is blocked; settimeout(2.0) of line 250
\* bounds each recvfrom call on its own
ListenTick ==
    /\ pc = "listen"
    /\ waited < ListenTimeout
    /\ waited' = waited + 1
    /\ elapsed' = elapsed + 1
    /\ UNCHANGED <<stopped_in_flight, store, is_running, peers, shared_fragments,
                   clock, op, pc, entry_running, todo, fragments, built, disc,
                   result>>

\* recvfrom returns a datagram that came before its timeout; the loop body
\* runs and the next recvfrom call starts to wait afresh
RecvFromTimed ==
    /\ pc = "listen"
    /\ nrecv < MaxWindow
    /\ waited < ListenTimeout
    /\ \E d \in Datagrams : Deliver(d)
    /\ waited' = 0
    /\ elapsed' = elapsed

\* recvfrom has been blocked for the whole timeout: socket.timeout
RecvTimeoutTimed ==
    /\ waited = ListenTimeout
    /\ RecvTimeout

\* recvfrom raises another OSError: the outer handler logs, finally closes
RecvError ==
    /\ pc = "listen"
    /\ sock' = "closed"
    /\ DiscoverReturns(found, "recv")
    /\ UNCHANGED <<stopped_in_flight, timer, store, peers, shared_fragments, clock, nrecv, data>>

\* ------------------------------------------------------------ share_insights
\* what claude.messages.create and response.content[0].text can do
SynthOutcomes == {"text", "empty_text", "api_error", "no_content"}
ServiceFailures == {"api_error", "no_content"}

\* the match of line 331 without the lower() on the concept
RelevantConceptsCaseSensitive(peer, query) ==
    IF peer.shared_concepts # {}
    THEN {c \in peer.shared_concepts :
              \E word \in QueryWords(query) : IsSubstring(word, c)}
    ELSE {}

\* lines 327-332: the peer's concepts that contain a word of the query
RelevantConcepts(peer, query) ==
    IF peer.shared_concepts # {}
    THEN {c \in peer.shared_concepts :
              \E word \in QueryWords(query) : IsSubstring(word, Lower(c))}
    ELSE {}

\* the request dict of lines 300-305 (request_id, eight hex digits of an md5
\* over the query and the time, is left out)
InsightRequest(query) ==
    [type |-> "insight_request", from_node |-> SelfId, query |-> query]

\* what the prompt of lines 343-348 takes from the node: relevant_concepts[:10]
\* and the query
SynthesisPrompt(peer, query) ==
    [concepts |-> RelevantConcepts(peer, query), query |-> query]

\* relevant_concepts[:10] of line 344: the concept lists the prompt can carry
PromptConceptChoices(peer, query) ==
    Sample(RelevantConcepts(peer, query), MaxPromptConcepts)

\* the handler of line 362 answering with the error text
SimulatePeerInsightResponseErrorText(peer, query, outcome) ==
    IF RelevantConcepts(peer, query) = {}
    THEN [none |-> TRUE, insights |-> "", called |-> FALSE]
    ELSE CASE outcome = "text" -> [none |-> FALSE, insights |-> "insight", called |-> TRUE]
           [] outcome = "empty_text" -> [none |-> FALSE, insights |-> "", called |-> TRUE]
           [] OTHER -> [none |-> FALSE, insights |-> "error", called |-> TRUE]

\* _simulate_peer_insight_response: None, or the response dict
SimulatePeerInsightResponse(peer, query, outcome) ==
    IF RelevantConcepts(peer, query) = {}
    THEN [none |-> TRUE, insights |-> "", called |-> FALSE]
    ELSE CASE outcome = "text" -> [none |-> FALSE, insights |-> "insight", called |-> TRUE]
           [] outcome = "empty_text" -> [none |-> FALSE, insights |-> "", called |-> TRUE]
           [] OTHER -> [none |-> TRUE, insights |-> "", called |-> TRUE]

\* share_insights without the early return of lines 293-295
ShareInsightsResultNoLookup(registry, peer_node_id, query, outcome) ==
    LET response ==
            IF peer_node_id \in DOMAIN registry
            THEN SimulatePeerInsightResponse(registry[peer_node_id], query, outcome)
            ELSE [none |-> outcome \in ServiceFailures,
                  insights |-> IF outcome = "text" THEN "insight" ELSE "",
                  called |-> TRUE]
    IN  [value |-> IF ~response.none /\ response.insights # ""
                   THEN response.insights ELSE None,
         called |-> response.called,
         raised |-> FALSE,
         fault |-> IF response.called /\ outcome \in ServiceFailures
                   THEN outcome ELSE "none"]

\* share_insights(peer_node_id, query): what it returns, whether the synthesis
\* service was called, whether an exception leaves it (the handlers of lines
\* 315 and 362 catch every Exception), and how the service failed
ShareInsightsResult(registry, peer_node_id, query, outcome) ==
    IF peer_node_id \notin DOMAIN registry
    THEN [value |-> None, called |-> FALSE, raised |-> FALSE, fault |-> "none"]
    ELSE LET response == SimulatePeerInsightResponse(registry[peer_node_id], query, outcome)
         IN  [value |-> IF ~response.none /\ response.insights # ""
                        THEN response.insights ELSE None,
              called |-> response.called,
              raised |-> FALSE,
              fault |-> IF response.called /\ outcome \in ServiceFailures
                        THEN outcome ELSE "none"]

\* a share_insights that stamps the peer it asked as seen now
ShareInsightsTouchesPeer(peer_node_id, query) ==
    /\ pc = "idle"
    /\ \E outcome \in SynthOutcomes :
          LET r == ShareInsightsResult(peers, peer_node_id, query, outcome)
          IN  Return(Outcome("share", r.raised, r.value, <<>>, peer_node_id,
                             r.called, is_running, FALSE, r.fault))
    /\ peers' = IF peer_node_id \in DOMAIN peers
                THEN [peers EXCEPT ![peer_node_id].last_seen = clock]
                ELSE peers
    /\ UNCHANGED <<stopped_in_flight, timer, store, is_running, shared_fragments, clock, sock,
                   nrecv, data>>

ShareInsights(peer_node_id, query) ==
    /\ pc = "idle"
    /\ \E outcome \in SynthOutcomes :
          LET r == ShareInsightsResult(peers, peer_node_id, query, outcome)
          IN  Return(Outcome("share", r.raised, r.value, <<>>, peer_node_id,
                             r.called, is_running, FALSE, r.fault))
    /\ UNCHANGED <<stopped_in_flight, timer, store, is_running, peers, shared_fragments, clock, sock,
                   nrecv, data>>

\* ------------------------------------------------------------ the event loop
\* The positions at which the coroutine in flight hands control back to the
\* event loop.  There are none: the awaits of lines 223, 310 and 387 are on
\* coroutines of this class, which run inline; sock.recvfrom (line 258) and
\* claude.messages.create (line 339) are blocking calls on the loop's thread.
SuspensionPoints == {}

\* another task of the same event loop takes a step that reads the registry
\* and the store while a call is in flight
OtherTaskStep ==
    /\ pc \in SuspensionPoints
    /\ \E n \in DOMAIN peers \cup {None}, f \in DOMAIN shared_fragments \cup {<<>>} :
          UNCHANGED vars

\* ------------------------------------------------------ get_federation_stats
\* the dict of lines 368-375
GetFederationStats ==
    [node_id |-> SelfId,
     shared_fragments |-> Cardinality(DOMAIN shared_fragments),
     connected_peers |-> Cardinality(DOMAIN peers),
     total_shared_concepts |->
         Cardinality(UNION {shared_fragments[f].concepts : f \in DOMAIN shared_fragments}),
     privacy_level |-> "concepts_only",
     federation_enabled |-> TRUE]

\* ----------------------------------------------------------- stop_federation
StopFederation ==
    /\ pc = "idle"
    /\ is_running' = FALSE
    /\ UNCHANGED <<stopped_in_flight, timer, store, peers, shared_fragments, clock, op, pc, entry_running,
                   todo, fragments, built, disc, result>>

\* stop_federation() is a plain method: another thread can call it while a
\* coroutine of this node is in flight (start_federation blocks its own
\* thread in recvfrom for seconds)
StopFederationInFlight ==
    /\ pc \notin {"idle", "done"}
    /\ is_running' = FALSE
    /\ stopped_in_flight' = TRUE
    /\ UNCHANGED <<timer, store, peers, shared_fragments, clock, op, pc,
                   entry_running, todo, fragments, built, disc, result>>

\* ------------------------------------------------------------- update_trust
TrustDeltas == {-100, 50}

\* clamped to [0, 1]
Clamp(x) == IF x < 0 THEN 0 ELSE IF x > 100 THEN 100 ELSE x

\* update_trust(node_id, delta) of the Peer Registry contract
UpdateTrust(node_id, delta) ==
    /\ pc = "idle"
    /\ node_id \in DOMAIN peers
    /\ peers' = [peers EXCEPT ![node_id].trust_score = Clamp(@ + delta)]
    /\ UNCHANGED <<stopped_in_flight, timer, store, is_running, shared_fragments, clock, op, pc,
                   entry_running, todo, fragments, built, disc, result>>

\* ------------------------------------------------------------ specifications
Next ==
    \/ Tick
    \/ Resume
    \/ StartFederation
    \/ FragmentStep
    \/ CreateReturns
    \/ \E method \in DiscoveryMethods : DiscoverPeers(method)
    \/ SocketCreate
    \/ SetSockOpt
    \/ SendTo
    \/ RecvFrom
    \/ RecvTimeout
    \/ RecvError
    \/ \E p \in NodeIds, q \in Queries : ShareInsights(p, q)
    \/ StopFederation

Spec == Init /\ [][Next]_vars

\* the node together with a registry that offers update_trust
NextTrust ==
    \/ Next
    \/ \E n \in PeerIds, delta \in TrustDeltas : UpdateTrust(n, delta)

\* the registry depends neither on which notes the vault holds nor on the
\* embedding model
InitTrust == Init /\ DOMAIN documents = {"t1", "t2"} /\ ~semantic_processor

SpecTrust == InitTrust /\ [][NextTrust]_vars

\* discovery of the peers above, and insight exchange with them
NextResponder ==
    \/ Tick
    \/ Resume
    \/ \E method \in DiscoveryMethods : DiscoverPeers(method)
    \/ SocketCreate
    \/ SetSockOpt
    \/ SendTo
    \/ RecvFromResponder
    \/ RecvTimeout
    \/ RecvError
    \/ \E p \in NodeIds, q \in Queries : ShareInsights(p, q)

InitResponder ==
    Init /\ DOMAIN documents = {} /\ ~pattern_extractor /\ ~semantic_processor

SpecResponder == InitResponder /\ [][NextResponder]_vars

\* fragment building and the discovery broadcast, on a network that is silent
NextSample ==
    \/ Tick
    \/ Resume
    \/ StartFederation
    \/ FragmentStep
    \/ CreateReturns
    \/ \E method \in DiscoveryMethods : DiscoverPeers(method)
    \/ SocketCreate
    \/ SetSockOpt
    \/ SendTo
    \/ RecvTimeout
    \/ RecvError
    \/ StopFederation

InitSample == InitFrom(SampleDocSets) /\ ~semantic_processor

SpecSample == InitSample /\ [][NextSample]_vars

\* the fragment builder called on its own
NextBuild ==
    \/ Tick
    \/ Resume
    \/ CreateKnowledgeFragments
    \/ FragmentStep
    \/ CreateReturns

InitBuild == InitFrom(BuildDocSets)

SpecBuild == InitBuild /\ [][NextBuild]_vars

\* the node on a network whose only other node is akap-p1, running this code
NextPair ==
    \/ Tick
    \/ Resume
    \/ StartFederation
    \/ FragmentStep
    \/ CreateReturns
    \/ \E method \in DiscoveryMethods : DiscoverPeers(method)
    \/ SocketCreate
    \/ SetSockOpt
    \/ SendTo
    \/ RecvFromPair
    \/ RecvTimeout
    \/ RecvError
    \/ \E p \in NodeIds, q \in Queries : ShareInsights(p, q)
    \/ StopFederation

SpecPair == Init /\ [][NextPair]_vars

\* discovery with the time spent listening
NextTimed ==
    \/ Tick
    \/ Resume
    \/ \E method \in DiscoveryMethods : DiscoverPeers(method)
    \/ SocketCreate
    \/ SetSockOpt
    \/ SendTo
    \/ ListenTick
    \/ RecvFromTimed
    \/ RecvTimeoutTimed
    \/ RecvError

SpecTimed == Init /\ [][NextTimed]_vars

\* the node with a second thread that may stop it at any moment
NextThreads ==
    \/ Next
    \/ StopFederationInFlight

InitThreads == Init /\ DOMAIN documents = {"t1", "t2"} /\ ~semantic_processor

SpecThreads == InitThreads /\ [][NextThreads]_vars

\* a node whose notes have concepts and themes and whose theme provider and
\* embedding model are both installed: every field of a fragment gets filled
InitPrivacy ==
    Init /\ DOMAIN documents = {"t1", "t2"} /\ pattern_extractor /\ semantic_processor

SpecPrivacy == InitPrivacy /\ [][Next]_vars

\* the owner of the knowledge node takes a note out of its documents dict
\* between two calls (the dict is a plain attribute; the federation code only
\* reads it)
RemoveDocument(title) ==
    /\ pc = "idle"
    /\ title \in DOMAIN documents
    /\ documents' = [t \in DOMAIN documents \ {title} |-> documents[t]]
    /\ UNCHANGED <<pattern_extractor, semantic_processor, is_running, peers,
                   shared_fragments, clock, op, pc, entry_running, todo,
                   fragments, built, disc, result, stopped_in_flight, timer>>

\* the node over a vault that loses notes, with rebuilds called directly
NextGrow ==
    \/ Next
    \/ CreateKnowledgeFragments
    \/ \E title \in Titles : RemoveDocument(title)

InitGrow ==
    Init /\ DOMAIN documents = {"t1", "t2"} /\ ~pattern_extractor /\ ~semantic_processor

SpecGrow == InitGrow /\ [][NextGrow]_vars

\* the node with a caller that also asks for semantic matches
NextOwn ==
    \/ Next
    \/ FindSemanticMatchesCall

SpecOwn == InitPrivacy /\ [][NextOwn]_vars

\* find_semantic_matches over a store as its loop is written to read it:
\* fragments of other nodes, with and without embeddings, beside one of the
\* node's own
Candidate(id, node, embedding) ==
    [fragment_id |-> id, node_id |-> node, content_hash |-> <<>>,
     concepts |-> {cAI}, themes |-> {}, creation_time |-> 0,
     similarity_embeddings |-> embedding]

CandidateIds == {FragmentId("t1"), <<"p", "1", "-", "a">>, <<"p", "1", "-", "b">>,
                 <<"p", "2", "-", "a">>}

CandidateOwner(id) ==
    IF id = FragmentId("t1") THEN SelfId
    ELSE IF id = <<"p", "2", "-", "a">> THEN "akap-p2" ELSE "akap-p1"

CandidateEmbeddings ==
    {NoEmbedding, <<3, 4>>, <<4, 3>>, <<-3, 4>>, <<0, 0>>, <<5>>}

CandidateStores ==
    {[id \in CandidateIds |-> Candidate(id, CandidateOwner(id), e[id])] :
        e \in {x \in [CandidateIds -> CandidateEmbeddings] :
                   x[FragmentId("t1")] = <<3, 4>>}}

NextMatch ==
    \/ Tick
    \/ Resume
    \/ FindSemanticMatchesCall

InitMatch ==
    /\ documents = [t \in {} |-> Doc(<<>>, {})]
    /\ pattern_extractor = TRUE
    /\ semantic_processor \in BOOLEAN
    /\ is_running = FALSE
    /\ peers = [n \in {} |-> NoPeer]
    /\ shared_fragments \in CandidateStores
    /\ clock = 0
    /\ op = "none"
    /\ pc = "idle"
    /\ entry_running = FALSE
    /\ todo = {}
    /\ fragments = <<>>
    /\ built = FALSE
    /\ sock = "unbound"
    /\ nrecv = 0
    /\ data = NoData
    /\ found = <<>>
    /\ result = NoResult
    /\ stopped_in_flight = FALSE
    /\ elapsed = 0
    /\ waited = 0

SpecMatch == InitMatch /\ [][NextMatch]_vars

\* ------------------------------------------------------------------ claims
\* a recvfrom step: the datagram it returned is data'
Received == pc = "listen" /\ nrecv' = nrecv + 1

\* non-JSON payload, JSON of the wrong shape, or a discovery response
\* without node_id or port
Malformed(d) ==
    \/ d.form # "object"
    \/ /\ d.type = "akap_discovery_response"
       /\ ~({"node_id", "port"} \subseteq d.keys)

Max(a, b) == IF a >= b THEN a ELSE b

\* C1: a start attempt made while stopped ends running and returns True when
\* fragment building succeeded, returns False and stays stopped when fragment
\* building threw, and is_running is never true before fragment building has
\* completed.
C1_StartLifecycle ==
    /\ (pc = "done" /\ result.op = "start" /\ ~result.entry_running) =>
          /\ result.built => (is_running /\ result.value = "True")
          /\ ~result.built => (~is_running /\ result.value = "False")
    /\ (op = "start" /\ ~entry_running /\ ~built) => ~is_running

\* C2: however peer discovery failed during start_federation (socket, options,
\* send, receive, malformed response, or nobody answered), a start whose
\* fragment building succeeded ends with is_running = True and returns True.
C2_DiscoveryFailureStillRuns ==
    (/\ pc = "done"
     /\ result.op = "start"
     /\ result.built
     /\ (result.fault # "none" \/ result.list = <<>>))
    => (is_running /\ result.value = "True")

\* C3: discover_peers never raises to its caller: whatever the transport does
\* and whatever the discovery_method, the call returns a list.
C3_DiscoverNeverRaises ==
    (pc = "done" /\ result.op = "discover") =>
        (~result.raised /\ result.value = "list")

\* C4: every well-formed discovery response that recvfrom returns and whose
\* node_id is not the seeker's is in the Peer Registry right after the step,
\* under its node_id, with trust_score 0.5, the time of the step as last_seen
\* and the port of the response; and the registry never has an entry for the
\* seeker itself.
C4_ResponsesRegistered ==
    /\ [](SelfId \notin DOMAIN peers)
    /\ [][(Received /\ WellFormed(data') /\ data'.node_id # SelfId) =>
            /\ data'.node_id \in DOMAIN peers'
            /\ peers'[data'.node_id].trust_score = 50
            /\ peers'[data'.node_id].last_seen = clock
            /\ peers'[data'.node_id].port = data'.port]_vars

C4_Witness ==
    /\ pc = "listen"
    /\ WellFormed(data)
    /\ data.node_id # SelfId
    /\ data.node_id \in DOMAIN peers
    /\ peers[data.node_id].trust_score = 50

\* C5: a malformed datagram received while listening registers no peer, raises
\* nothing and leaves the seeker listening for the responses that follow it in
\* the same listen window.
C5_MalformedDropped ==
    [][(Received /\ Malformed(data')) =>
          /\ peers' = peers
          /\ ~(pc' = "done" /\ result'.raised)
          /\ pc' = "listen"]_vars

\* C6: a discovery response from a node_id that is already registered leaves
\* the registry with the same keys (one entry for that node_id), and the
\* entry's last_seen is the later of the old one and the time of this response.
C6_UpsertIdempotent ==
    [][(Received /\ WellFormed(data') /\ data'.node_id # SelfId
          /\ data'.node_id \in DOMAIN peers) =>
            /\ DOMAIN peers' = DOMAIN peers
            /\ Cardinality(DOMAIN peers') = Cardinality(DOMAIN peers)
            /\ peers'[data'.node_id].last_seen =
                  Max(peers[data'.node_id].last_seen, clock)]_vars

C6_Witness ==
    /\ pc = "listen"
    /\ Len(found) = 2
    /\ found[1] = found[2]
    /\ clock > 0
    /\ peers[found[1]].last_seen = clock

\* C7: no step other than update_trust changes the trust_score of a peer that
\* is in the registry; in particular a discovery response from that node_id
\* leaves it as it was.
C7_TrustOnlyByUpdateTrust ==
    [][(\E n \in DOMAIN peers \cap DOMAIN peers' :
            peers'[n].trust_score # peers[n].trust_score)
        => (pc = "idle" /\ pc' = "idle")]_vars

\* C8: every peer record in the registry has a trust_score within [0.0, 1.0],
\* after any discovery rounds, insight exchanges and trust updates.
C8_TrustBounded ==
    \A n \in DOMAIN peers :
        peers[n].trust_score >= 0 /\ peers[n].trust_score <= 100

C8_Witness ==
    /\ Cardinality(DOMAIN peers) = 2
    /\ \E n \in DOMAIN peers : peers[n].trust_score = 100
    /\ \E n \in DOMAIN peers : peers[n].trust_score = 50

\* C9: share_insights with a peer id that is not a key of the registry returns
\* None, without a call to the synthesis service and without raising.
C9_UnknownPeerNull ==
    (pc = "done" /\ result.op = "share" /\ result.peer \notin DOMAIN peers) =>
        (result.value = None /\ ~result.synth /\ ~result.raised)

C9_Witness ==
    /\ pc = "done"
    /\ result.op = "share"
    /\ result.peer \notin DOMAIN peers
    /\ DOMAIN peers # {}

\* C10: when the synthesis service fails during share_insights, the call
\* returns None, raises nothing, and is_running is what it was at the call.
C10_ServiceFailureCaught ==
    (pc = "done" /\ result.op = "share" /\ result.fault \in ServiceFailures) =>
        (result.value = None /\ ~result.raised /\ is_running = result.entry_running)

C10_Witness ==
    /\ pc = "done"
    /\ result.op = "share"
    /\ result.synth
    /\ result.fault \in ServiceFailures
    /\ result.peer \in DOMAIN peers

\* C11: share_insights called while the node is not running (never started, or
\* stopped) fails fast: it raises an error of its own, without a call to the
\* synthesis service, instead of returning None or an insight.
C11_NotRunningFailsFast ==
    (pc = "done" /\ result.op = "share" /\ ~result.entry_running) =>
        (result.raised /\ ~result.synth)

\* C13: the dict get_federation_stats returns has a running flag that is true
\* exactly when is_running is, and its fragment and peer counts are the sizes
\* of the Fragment Store and of the Peer Registry.
C13_StatsReportLifecycle ==
    LET stats == GetFederationStats
    IN  /\ stats.shared_fragments = Cardinality(DOMAIN shared_fragments)
        /\ stats.connected_peers = Cardinality(DOMAIN peers)
        /\ "running" \in DOMAIN stats
        /\ stats.running = is_running

\* C14: is_running goes from True to False in no step but stop_federation:
\* not in a step of discovery (failed or not), of fragment building, of
\* share_insights (unknown peer, service failure), nor when a call returns.
C14_OnlyStopLeavesRunning ==
    [][(is_running /\ ~is_running') =>
          /\ pc = "idle"
          /\ UNCHANGED <<store, peers, shared_fragments, clock, op, pc,
                         entry_running, todo, fragments, built, disc, result>>]_vars

C14_Witness ==
    /\ pc = "done"
    /\ result.op \in {"start", "discover"}
    /\ result.fault = "malformed"
    /\ result.entry_running
    /\ is_running

\* the fragments of a returned list, and the one built from document t
Returned == {result.list[i] : i \in 1..Len(result.list)}
FragmentOf(t) == {f \in Returned : f.fragment_id = FragmentId(t)}

\* C15: a create_knowledge_fragments call that returns, returns a list with
\* exactly one fragment per document; a fragment has the null embedding when
\* the embedding model is absent or failed and the document's embedding
\* otherwise; a document without concepts has its fragment, with empty
\* concepts and themes.
C15_OneFragmentPerDocument ==
    (pc = "done" /\ result.op = "create" /\ ~result.raised) =>
        /\ Len(result.list) = Cardinality(DOMAIN documents)
        /\ \A t \in DOMAIN documents :
              /\ Cardinality(FragmentOf(t)) = 1
              /\ \A f \in FragmentOf(t) :
                    /\ f.similarity_embeddings \in
                          {NoEmbedding, Embedding(documents[t].content)}
                    /\ ~semantic_processor => f.similarity_embeddings = NoEmbedding
                    /\ f.concepts = documents[t].concepts
                    /\ documents[t].concepts = {} => f.themes = {}

C15_Witness ==
    /\ pc = "done"
    /\ result.op = "create"
    /\ Len(result.list) = 2
    /\ \E f \in Returned : f.concepts = {} /\ f.similarity_embeddings = NoEmbedding
    /\ \E f \in Returned : f.concepts # {} /\ f.similarity_embeddings # NoEmbedding

\* C16: a pass of the fragment loop over a document that already has a
\* fragment in the store keeps the set of ids and stores a fragment equal to
\* the prior one, creation_time included (the documents never change; the
\* embedding is compared only when the model answered both times).
C16_RebuildIdempotent ==
    [][\A id \in DOMAIN shared_fragments :
          /\ id \in DOMAIN shared_fragments'
          /\ (shared_fragments'[id].similarity_embeddings =
                  shared_fragments[id].similarity_embeddings)
              => shared_fragments'[id] = shared_fragments[id]]_vars

\* C17: create_knowledge_fragments raises nothing and stores a fragment for
\* every document, whatever the embedding model and the theme provider do.
C17_CollaboratorFailureContained ==
    (pc = "done" /\ result.op = "create") =>
        /\ ~result.raised
        /\ \A t \in DOMAIN documents : FragmentId(t) \in DOMAIN shared_fragments

\* the texts a fragment holds, and the texts that leave the node in the
\* discovery broadcast, an insight request and a synthesis prompt
FragmentTexts(f) == {f.fragment_id, f.content_hash} \cup f.concepts \cup f.themes
OutgoingTexts ==
    {SelfIdChars} \cup DiscoveryMessage.concepts
    \cup {InsightRequest(q).query : q \in Queries}
    \cup UNION {SynthesisPrompt(peers[p], q).concepts \cup {SynthesisPrompt(peers[p], q).query} :
                    p \in DOMAIN peers, q \in Queries}

C12_StopIsFinal == stopped_in_flight => ~is_running

\* C19: with this node and akap-p1 on the same network, both running, a
\* discovery of this node that broadcast and listened to the end of its
\* window without a fault ends with akap-p1 in the Peer Registry at trust
\* 0.5: akap-p1 has answered the discovery message.
C19_PeerAnswersDiscovery ==
    (pc = "done" /\ result.op \in {"start", "discover"} /\ sock = "closed"
        /\ result.fault = "none") =>
        /\ "akap-p1" \in DOMAIN peers
        /\ peers["akap-p1"].trust_score = InitialTrust

\* C20: the seeker is never still listening more than the listen timeout
\* after its broadcast, however many datagrams came in; and a discovery that
\* heard nothing ends at the timeout with an empty list and no exception.
C20_ListenWindowBounded ==
    /\ pc = "listen" => elapsed <= ListenTimeout
    /\ (pc = "done" /\ result.op = "discover" /\ sock = "closed"
          /\ result.fault = "none" /\ nrecv = 0) =>
            /\ result.list = <<>>
            /\ ~result.raised
            /\ elapsed = ListenTimeout

\* C21: discover_peers with discovery_method "dht" or "bootstrap" (the calls
\* that return at once, with no socket opened) returns an empty list, raises
\* nothing and leaves the Peer Registry, the Fragment Store and is_running as
\* they were.
C21_OtherMethodsNoOp ==
    [][(pc = "idle" /\ pc' = "done" /\ result'.op = "discover") =>
          /\ result'.value = "list"
          /\ result'.list = <<>>
          /\ ~result'.raised
          /\ UNCHANGED <<peers, shared_fragments, is_running>>]_vars

C21_Witness ==
    /\ pc = "done"
    /\ result.op = "discover"
    /\ sock = "unbound"
    /\ ~result.raised
    /\ DOMAIN peers # {}
    /\ DOMAIN shared_fragments # {}
    /\ is_running

\* a whole share_insights call
ShareStep == pc = "idle" /\ pc' = "done" /\ result'.op = "share"

\* C23: a share_insights call, whatever its outcome and in whatever order
\* with other calls, leaves the Peer Registry, the Fragment Store and
\* is_running as they were, and what it returns is what the registry as it
\* stands, its own peer id and its own query give.
C23_ShareReadOnly ==
    [][ShareStep =>
          /\ UNCHANGED <<peers, shared_fragments, is_running>>
          /\ \E q \in Queries, o \in SynthOutcomes :
                LET r == ShareInsightsResult(peers, result'.peer, q, o)
                IN  result'.value = r.value /\ result'.synth = r.called]_vars

C23_Witness ==
    /\ pc = "done"
    /\ result.op = "share"
    /\ result.value = "insight"
    /\ is_running
    /\ Cardinality(DOMAIN peers) = 2
    /\ DOMAIN shared_fragments # {}

\* C25: after a share_insights call that returned an insight, the peer asked
\* has a last_seen in the registry that is not earlier than the time of the
\* call.
C25_LastSeenOnExchange ==
    (pc = "done" /\ result.op = "share" /\ result.value # None) =>
        peers[result.peer].last_seen >= clock

\* C22: while a discovery is inside its listen window, another task of the
\* node can take a step that reads or writes the Peer Registry or the
\* Fragment Store.
C22_ListenDoesNotBlock == pc = "listen" => ENABLED OtherTaskStep

\* the well-formed responses of other nodes
Responses == {d \in Datagrams : WellFormed(d) /\ d.node_id # SelfId}

\* C24: whatever the registry holds, two well-formed responses received in
\* one listen window leave the same Peer Registry in either order of
\* arrival, also when both carry the same node_id.
C24_ResponsesCommute ==
    \A d1 \in Responses, d2 \in Responses :
        RegisterAll(peers, <<d1, d2>>, clock) = RegisterAll(peers, <<d2, d1>>, clock)

\* the concepts the responder policy keeps for a query
Kept(peer, query) ==
    {c \in peer.shared_concepts :
        \E word \in QueryWords(query) : IsSubstring(word, Lower(c))}

\* C26: for every registered peer and every query, when no concept of the
\* peer contains a word of the query (case-insensitively) the exchange
\* answers null without calling the synthesis service; otherwise the service
\* is called, the prompt carries at most 10 concepts, all of them kept
\* ones, and the text the service gives is the answer.
C26_ResponderPolicy ==
    \A p \in DOMAIN peers, q \in Queries, o \in SynthOutcomes :
        LET r == SimulatePeerInsightResponse(peers[p], q, o)
            kept == Kept(peers[p], q)
        IN  /\ kept = {} => (r.none /\ ~r.called)
            /\ kept # {} =>
                  /\ r.called
                  /\ o = "text" => (~r.none /\ r.insights = "insight")
                  /\ \A sent \in PromptConceptChoices(peers[p], q) :
                        /\ sent \subseteq kept
                        /\ sent # {}
                        /\ Cardinality(sent) <= MaxPromptConcepts
                        /\ Cardinality(kept) <= MaxPromptConcepts => sent = kept

C26_Witness ==
    /\ pc = "done"
    /\ result.op = "share"
    /\ result.peer = "akap-p1"
    /\ result.value = "insight"
    /\ Cardinality(Kept(peers["akap-p1"], <<"a", "i">>)) > MaxPromptConcepts
    /\ "akap-p2" \in DOMAIN peers
    /\ Kept(peers["akap-p2"], <<" ">>) = {}

\* C28: every list the concepts of a discovery message can be has at most 20
\* entries, no entry twice, and only concepts of fragments now in the
\* Fragment Store; with an empty store it is the empty list.
C28_SampleBounded ==
    /\ \A list \in DiscoveryConceptLists :
          /\ Len(list) <= MaxSampleConcepts
          /\ \A i \in 1..Len(list), j \in 1..Len(list) : list[i] = list[j] => i = j
          /\ \A i \in 1..Len(list) :
                \E f \in DOMAIN shared_fragments : list[i] \in shared_fragments[f].concepts
    /\ DOMAIN shared_fragments = {} => DiscoveryConceptLists = {<<>>}

C28_Witness ==
    /\ pc = "listen"
    /\ Cardinality(StoreConcepts) > MaxSampleConcepts
    /\ \E list \in DiscoveryConceptLists : Len(list) = MaxSampleConcepts

\* C27: every list the matcher can return is sorted by similarity, the highest
\* first, holds at most max_results entries, and each entry is the node_id and
\* similarity of a stored fragment that has an embedding, belongs to another
\* node and scores above the threshold; the similarity is 0 when either vector
\* has zero magnitude
C27_MatcherContract ==
    \A q \in QueryEmbeddings, encode_ok \in BOOLEAN, m \in 0..MaxResults :
        /\ \A matches \in FindSemanticMatches(shared_fragments, q, encode_ok, m) :
              /\ Len(matches) <= m
              /\ \A i \in DOMAIN matches, j \in DOMAIN matches :
                    i < j => matches[i][2] >= matches[j][2]
              /\ \A i \in DOMAIN matches :
                    \E f \in DOMAIN shared_fragments :
                        /\ shared_fragments[f].similarity_embeddings # NoEmbedding
                        /\ shared_fragments[f].node_id # SelfId
                        /\ matches[i][1] = shared_fragments[f].node_id
                        /\ matches[i][2] =
                              CosineSimilarity(q, shared_fragments[f].similarity_embeddings)
                        /\ matches[i][2] > RelevanceThreshold
        /\ \A f \in DOMAIN shared_fragments :
              LET e == shared_fragments[f].similarity_embeddings
              IN  (Len(e) = Len(q) /\ (Dot(q, q) = 0 \/ Dot(e, e) = 0))
                      => CosineSimilarity(q, e) = 0

\* a call returned two matches in descending order, cut from three, while
\* the store also holds an own fragment, a fragment below the threshold or
\* without an embedding
C27_Witness ==
    /\ pc = "done" /\ result.op = "match"
    /\ Len(result.list) = 2
    /\ result.list[1][2] > result.list[2][2]
    /\ Cardinality({f \in DOMAIN shared_fragments :
                       shared_fragments[f].node_id # SelfId
                       /\ shared_fragments[f].similarity_embeddings
                             \in {<<3, 4>>, <<4, 3>>}}) = 3
    /\ \E f \in DOMAIN shared_fragments :
          shared_fragments[f].node_id = SelfId
          /\ shared_fragments[f].similarity_embeddings # NoEmbedding

\* C29: every stored fragment carries the node's own node_id and is stored
\* under its own fragment_id, so the matcher returns the empty list whatever
\* the query and max_results
C29_StoreIsOwn ==
    /\ \A f \in DOMAIN shared_fragments :
          /\ shared_fragments[f].node_id = SelfId
          /\ shared_fragments[f].fragment_id = f
    /\ \A q \in QueryEmbeddings, encode_ok \in BOOLEAN, m \in 0..MaxResults :
          FindSemanticMatches(shared_fragments, q, encode_ok, m) = {<<>>}
    /\ (pc = "done" /\ result.op = "match") => result.list = <<>>

\* after a build that stored embedded fragments and a discovery that
\* registered a peer, a match call whose query was encoded returned []
C29_Witness ==
    /\ pc = "done" /\ result.op = "match" /\ result.fault = "none"
    /\ result.list = <<>>
    /\ DOMAIN peers # {}
    /\ Cardinality(DOMAIN shared_fragments) = 2
    /\ \A f \in DOMAIN shared_fragments :
          shared_fragments[f].similarity_embeddings # NoEmbedding

\* C30: no step takes an entry out of the fragment store or the peer
\* registry, and the counts the stats report never fall: a registered peer
\* outlives stop and restart, and the fragment of a note that has left the
\* vault outlives every rebuild
C30_StoreAndRegistryGrow ==
    [][/\ DOMAIN peers \subseteq DOMAIN peers'
       /\ DOMAIN shared_fragments \subseteq DOMAIN shared_fragments'
       /\ GetFederationStats'.connected_peers >= GetFederationStats.connected_peers
       /\ GetFederationStats'.shared_fragments >= GetFederationStats.shared_fragments]_vars

\* note t1 has left the vault, a rebuild has returned its list, and the store
\* still holds (and the stats still count) the fragment of t1; a peer is
\* still registered on the stopped node
C30_Witness ==
    /\ pc = "done" /\ result.op = "create" /\ ~result.raised
    /\ Len(result.list) = 1
    /\ "t1" \notin DOMAIN documents
    /\ FragmentId("t1") \in DOMAIN shared_fragments
    /\ GetFederationStats.shared_fragments = 2
    /\ DOMAIN peers # {}
    /\ ~is_running

====
